---- MODULE Spec2Model ----
(***************************************************************************)
(* Piggyback profiling (mpws2013n1/postgres): the statistics and           *)
(* functional-dependency engine hooked into the executor's ExecInitNode,   *)
(* ExecProcNode and ExecEndNode, with its open-addressing hashset and      *)
(* hashmap and the reporter that writes the 'X' message.                   *)
(*                                                                         *)
(* Numbers.  TLC's integers are 32-bit.  A C int keeps its 32 bits here    *)
(* (INT_MIN..INT_MAX, additions wrap).  A size_t or unsigned long is held  *)
(* by a TLC integer as well: a negative TLC integer v stands for the       *)
(* sign-extended word 2^64 + v, which has the residue of v modulo every    *)
(* table size (a power of two), and the two reserved hashset words, which  *)
(* are (unsigned int)(ULONG_MAX - 1) and (unsigned int)(ULONG_MAX - 2) in  *)
(* the source, sit at the top of a 30-bit unsigned word: they keep their   *)
(* residues modulo every table size, lie above every key and hash the      *)
(* model inserts, and differ from every sign-extended int.                 *)
(***************************************************************************)
EXTENDS Integers, Sequences, FiniteSets, TLC

(***************************************************************************)
(* Bounds of the model.                                                    *)
(***************************************************************************)
\* the hashset harness removes at most this many times
MaxRemoves == 1
\* removes made on the set that is driven with a key for every slot
MaxRemovesFill == 3
\* the size the hashmap driven on its own is created with
MapStartSize == 3
\* rows the root node yields in one execution
MaxRows == 2
\* scan nodes of one plan
MaxScans == 2
\* combining nodes (joins, appends, aggregates, limits) of one plan
MaxCombining == 1
\* rows are observed for plans of at most this many scans
MaxScansWithRows == 1
\* rows of the filtered scan of the table (id, category)
MaxRowsE2E == 3

(***************************************************************************)
(* The hashset (distinct-value tracker).                                   *)
(***************************************************************************)
prime_1 == 73
prime_2 == 5009

\* ULONG_MAX as cut to the model's unsigned word
ULONG_MAX == 2^30 - 1
nil == ULONG_MAX - 1
rem == ULONG_MAX - 2

\* 1 << nbits
Shl1(nbits) == 2^nbits

\* set->mask & x, the mask being capacity - 1 and the capacity a power of two
Mask(set, x) == x % set.capacity

hashset_create ==
    [nbits |-> 3, capacity |-> Shl1(3), nitems |-> 0,
     items |-> [ii \in 0..(Shl1(3) - 1) |-> nil]]

hashset_num_items(set) == set.nitems

\* ii = set->mask & (prime_1 * value)
FirstSlot(set, value) == Mask(set, prime_1 * Mask(set, value))

\* ii = set->mask & (ii + prime_2)
NextSlot(set, ii) == Mask(set, ii + prime_2)

(* The probe loop of hashset_add_member: it stops at the first slot that    *)
(* holds nil or rem, or at the value.  The step is odd, so the walk has the *)
(* period of the capacity: a walk that has not stopped after capacity steps *)
(* never stops.                                                            *)
RECURSIVE AddProbe(_, _, _, _)
AddProbe(set, value, ii, fuel) ==
    IF fuel = 0 THEN [kind |-> "hang", ii |-> ii]
    ELSE IF set.items[ii] = nil \/ set.items[ii] = rem THEN [kind |-> "free", ii |-> ii]
    ELSE IF set.items[ii] = value THEN [kind |-> "found", ii |-> ii]
    ELSE AddProbe(set, value, NextSlot(set, ii), fuel - 1)

\* the slip of leaving out the test for the reserved words
hashset_add_member_unchecked(set, value) ==
    LET p == AddProbe(set, value, FirstSlot(set, value), set.capacity)
    IN  CASE p.kind = "hang"  -> [set |-> set, rv |-> 0, hang |-> TRUE]
          [] p.kind = "found" -> [set |-> set, rv |-> 0, hang |-> FALSE]
          [] OTHER -> [set |-> [set EXCEPT !.nitems = @ + 1,
                                           !.items[p.ii] = value],
                       rv |-> 1, hang |-> FALSE]

hashset_add_member(set, value) ==
    IF value = nil \/ value = rem
    THEN [set |-> set, rv |-> -1, hang |-> FALSE]
    ELSE LET p == AddProbe(set, value, FirstSlot(set, value), set.capacity)
         IN  CASE p.kind = "hang"  -> [set |-> set, rv |-> 0, hang |-> TRUE]
               [] p.kind = "found" -> [set |-> set, rv |-> 0, hang |-> FALSE]
               [] OTHER -> [set |-> [set EXCEPT !.nitems = @ + 1,
                                                !.items[p.ii] = value],
                            rv |-> 1, hang |-> FALSE]

\* (float) set->nitems >= (size_t) ((double) set->capacity * 0.85)
RehashDue(set) == set.nitems >= (set.capacity * 85) \div 100

\* for (ii = 0; ii < old_capacity; ii++) hashset_add_member(set, old_items[ii])
RECURSIVE ReAdd(_, _, _, _)
ReAdd(set, old_items, old_capacity, ii) ==
    IF ii >= old_capacity THEN set
    ELSE ReAdd(hashset_add_member(set, old_items[ii]).set,
               old_items, old_capacity, ii + 1)

maybe_rehash_forgets(set) ==
    IF RehashDue(set)
    THEN [nbits |-> set.nbits + 1, capacity |-> Shl1(set.nbits + 1), nitems |-> set.nitems,
          items |-> [ii \in 0..(Shl1(set.nbits + 1) - 1) |->
                        IF ii < set.capacity THEN set.items[ii] ELSE nil]]
    ELSE set

maybe_rehash(set) ==
    IF RehashDue(set)
    THEN ReAdd([nbits |-> set.nbits + 1, capacity |-> Shl1(set.nbits + 1), nitems |-> 0,
                items |-> [ii \in 0..(Shl1(set.nbits + 1) - 1) |-> nil]],
               set.items, set.capacity, 0)
    ELSE set

\* hashset_add_integer: add, then maybe_rehash; the add's return value
hashset_add_integer(set, item) ==
    LET r == hashset_add_member(set, item)
    IN  [set |-> maybe_rehash(r.set), rv |-> r.rv, hang |-> r.hang]

(* The probe loop of hashset_remove and hashset_is_member: it stops only at *)
(* a nil slot or at the value.                                              *)
RECURSIVE FindProbe(_, _, _, _)
FindProbe(set, value, ii, fuel) ==
    IF fuel = 0 THEN [kind |-> "hang", ii |-> ii]
    ELSE IF set.items[ii] = nil THEN [kind |-> "absent", ii |-> ii]
    ELSE IF set.items[ii] = value THEN [kind |-> "found", ii |-> ii]
    ELSE FindProbe(set, value, NextSlot(set, ii), fuel - 1)

\* hashset_remove as it would be if it emptied the slot instead of leaving
\* the tombstone word in it
hashset_remove_clears(set, value) ==
    LET p == FindProbe(set, value, FirstSlot(set, value), set.capacity)
    IN  CASE p.kind = "hang"  -> [set |-> set, rv |-> 0, hang |-> TRUE]
          [] p.kind = "found" -> [set |-> [set EXCEPT !.items[p.ii] = nil,
                                                      !.nitems = @ - 1],
                                  rv |-> 1, hang |-> FALSE]
          [] OTHER -> [set |-> set, rv |-> 0, hang |-> FALSE]

hashset_remove(set, value) ==
    LET p == FindProbe(set, value, FirstSlot(set, value), set.capacity)
    IN  CASE p.kind = "hang"  -> [set |-> set, rv |-> 0, hang |-> TRUE]
          [] p.kind = "found" -> [set |-> [set EXCEPT !.items[p.ii] = rem,
                                                      !.nitems = @ - 1],
                                  rv |-> 1, hang |-> FALSE]
          [] OTHER -> [set |-> set, rv |-> 0, hang |-> FALSE]

hashset_is_member(set, value) ==
    LET p == FindProbe(set, value, FirstSlot(set, value), set.capacity)
    IN  CASE p.kind = "hang"  -> [rv |-> 0, hang |-> TRUE]
          [] p.kind = "found" -> [rv |-> 1, hang |-> FALSE]
          [] OTHER -> [rv |-> 0, hang |-> FALSE]

\* unsigned long hash(unsigned char *str): h = 5381; h = h * 33 + c per byte
RECURSIVE hashFrom(_, _, _)
hashFrom(h, str, n) ==
    IF n > Len(str) THEN h
    ELSE hashFrom((((h * 32) + h) + str[n]) % (ULONG_MAX + 1), str, n + 1)

hash(str) == hashFrom(5381, str, 1)

hashset_add_string(set, str) ==
    LET r == hashset_add_member(set, hash(str))
    IN  [set |-> maybe_rehash(r.set), rv |-> r.rv, hang |-> r.hang]

(***************************************************************************)
(* C values.                                                               *)
(***************************************************************************)
INT_MAX == 2147483647
INT_MIN == (-INT_MAX) - 1

\* int arithmetic of the build (-fwrapv): v + 1 and v - 1 in 32 bits
Inc32(v) == IF v = INT_MAX THEN INT_MIN ELSE v + 1
Dec32(v) == IF v = INT_MIN THEN INT_MAX ELSE v - 1

\* a pointer to an int: the address and the int it points to; address 0 is NULL
IntPtr(a, v) == [addr |-> a, val |-> v]
NullInt == IntPtr(0, 0)

\* a pointer to a string: the address and the bytes before the terminating 0
StrPtr(a, s) == [addr |-> a, str |-> s]
NullStr == StrPtr(0, << >>)

\* the string literal "" of ExecProcNode; allocations start above it
EmptyLit == StrPtr(1, << >>)
FirstAddr == EmptyLit.addr + 1

(***************************************************************************)
(* The hashmap (one per ordered column pair).  The calloc'ed table is held *)
(* sparsely: an index the map never wrote holds the zero entry.            *)
(***************************************************************************)
TABLE_STARTSIZE == 1000
ACTIVE == 1

ZeroEntry == [data |-> NullStr, flags |-> 0, key |-> 0]
NoTable == [x \in {} |-> ZeroEntry]

\* a hashmap* that is NULL
NullMap == [size |-> 0, count |-> 0, table |-> NoTable]
IsNullMap(hm) == hm.size = 0

EntryAt(hm, index) == IF index \in DOMAIN hm.table THEN hm.table[index] ELSE ZeroEntry

PutEntry(hm, index, e) ==
    [hm EXCEPT !.table = [x \in (DOMAIN hm.table) \cup {index} |->
                             IF x = index THEN e ELSE hm.table[x]]]

hashmapCreate(startsize) == [size |-> startsize, count |-> 0, table |-> NoTable]

\* index = key % size; step = (key % (size - 2)) + 1
MapIndex(hm, key) == key % hm.size
MapStep(hm, key) == (key % (hm.size - 2)) + 1

\* the for loop of hashmapInsert; done is FALSE when it ran through the table
RECURSIVE InsertProbe(_, _, _, _, _, _)
InsertProbe(hm, data, key, index, step, i) ==
    IF i >= hm.size THEN [done |-> FALSE, hm |-> hm]
    ELSE LET e == EntryAt(hm, index)
         IN  IF e.flags = ACTIVE
             THEN IF e.key = key
                  THEN [done |-> TRUE, hm |-> PutEntry(hm, index, [e EXCEPT !.data = data])]
                  ELSE InsertProbe(hm, data, key, (index + step) % hm.size, step, i + 1)
             ELSE [done |-> TRUE,
                   hm |-> [PutEntry(hm, index, [data |-> data, flags |-> ACTIVE, key |-> key])
                              EXCEPT !.count = @ + 1]]

RECURSIVE hashmapInsert(_, _, _)
RECURSIVE ReInsert(_, _, _)

\* while (--size >= 0) if (table[size].flags == ACTIVE) hashmapInsert(...)
ReInsert(hm, old, size) ==
    IF size < 0 THEN hm
    ELSE LET e == EntryAt(old, size)
         IN  ReInsert(IF e.flags = ACTIVE THEN hashmapInsert(hm, e.data, e.key) ELSE hm,
                      old, size - 1)

\* rehash as it would be if its loop left the last slot of the old table out
rehash_drops_last(hm) ==
    ReInsert([size |-> hm.size * 2, count |-> 0, table |-> NoTable], hm, hm.size - 2)

rehash(hm) ==
    ReInsert([size |-> hm.size * 2, count |-> 0, table |-> NoTable], hm, hm.size - 1)

hashmapInsert(hash0, data, key) ==
    LET hm == IF hash0.size <= hash0.count THEN rehash(hash0) ELSE hash0
        p  == InsertProbe(hm, data, key, MapIndex(hm, key), MapStep(hm, key), 0)
    IN  IF p.done THEN p.hm ELSE hashmapInsert(rehash(hm), data, key)

RECURSIVE GetProbe(_, _, _, _, _)
GetProbe(hm, key, index, step, i) ==
    IF i >= hm.size THEN NullStr
    ELSE LET e == EntryAt(hm, index)
         IN  IF e.key = key
             THEN (IF e.flags = ACTIVE THEN e.data ELSE NullStr)
             ELSE IF e.data = NullStr THEN NullStr
             ELSE GetProbe(hm, key, (index + step) % hm.size, step, i + 1)

hashmapGet(hm, key) ==
    IF hm.count # 0
    THEN GetProbe(hm, key, MapIndex(hm, key), MapStep(hm, key), 0)
    ELSE NullStr

RECURSIVE RemoveProbe(_, _, _, _, _)
RemoveProbe(hm, key, index, step, i) ==
    IF i >= hm.size THEN [hm |-> hm, data |-> NullStr]
    ELSE LET e == EntryAt(hm, index)
         IN  IF e.data # NullStr
             THEN IF e.key = key
                  THEN IF e.flags = ACTIVE
                       THEN [hm |-> [PutEntry(hm, index, [e EXCEPT !.flags = 0])
                                        EXCEPT !.count = @ - 1],
                             data |-> e.data]
                       ELSE [hm |-> hm, data |-> NullStr]
                  ELSE RemoveProbe(hm, key, (index + step) % hm.size, step, i + 1)
             ELSE [hm |-> hm, data |-> NullStr]

hashmapRemove(hm, key) == RemoveProbe(hm, key, MapIndex(hm, key), MapStep(hm, key), 0)

hashmapCount(hm) == hm.count

(***************************************************************************)
(* The hashset on its own: a fresh set driven by inserts and removes.      *)
(***************************************************************************)
VARIABLES
    hs,         \* the set
    hsAdded,    \* history: the keys added and not removed since
    hsRemoves,  \* history: the removes made
    hsLast      \* history: the last call and what it returned

setVars == <<hs, hsAdded, hsRemoves, hsLast>>

\* keys that meet in a slot for 8 and for 16 slots, and the two reserved words
SetKeys == {0, 1, 8, 9, 16, -8, nil, rem}

SetInit ==
    /\ hs = hashset_create
    /\ hsAdded = {}
    /\ hsRemoves = 0
    /\ hsLast = [op |-> "create", key |-> 0, rv |-> 0, hang |-> FALSE]

SetAdd(k) ==
    LET r == hashset_add_integer(hs, k)
    IN  /\ hs' = r.set
        /\ hsAdded' = IF k \in {nil, rem} THEN hsAdded ELSE hsAdded \cup {k}
        /\ hsLast' = [op |-> "add", key |-> k, rv |-> r.rv, hang |-> r.hang]
        /\ UNCHANGED hsRemoves

SetRemove(k) ==
    LET r == hashset_remove(hs, k)
    IN  /\ hs' = r.set
        /\ hsAdded' = hsAdded \ {k}
        /\ hsRemoves' = hsRemoves + 1
        /\ hsLast' = [op |-> "remove", key |-> k, rv |-> r.rv, hang |-> r.hang]

(***************************************************************************)
(* The hashmap on its own: a map created small, so that inserts double it, *)
(* and the keys and data it was given.                                     *)
(***************************************************************************)
VARIABLES
    hmap,       \* the hashmap
    hmData,     \* key -> the data last inserted for it, NullStr for none
    hmOver      \* an insert has replaced the data of a key that was in

mapVars == <<hmap, hmData, hmOver>>

\* keys that share slots in a table of MapStartSize, 2 * MapStartSize, ...
MapKeys == {0, 1, 2, 3, 6, 12, 24}
\* two data pointers, neither of them NULL
MapData == {StrPtr(FirstAddr, <<"a">>), StrPtr(FirstAddr + 1, <<"b">>)}

MapInit ==
    /\ hmap = hashmapCreate(MapStartSize)
    /\ hmData = [k \in MapKeys |-> NullStr]
    /\ hmOver = FALSE

MapInsert(key, data) ==
    /\ hmap' = hashmapInsert(hmap, data, key)
    /\ hmData' = [hmData EXCEPT ![key] = data]
    /\ hmOver' = (hmOver \/ hmData[key] \notin {NullStr, data})


(***************************************************************************)
(* The engine's state.                                                     *)
(***************************************************************************)
VARIABLES
    live,                    \* piggyback != NULL
    pc,                      \* "init", "run", "end", "aborted" or "fault"
    schema,                  \* the result columns: name, source table and column, type
    columnStatistics,        \* piggyback->resultStatistics->columnStatistics
    distinctValues,          \* piggyback->distinctValues
    twoColumnsCombinations,  \* piggyback->twoColumnsCombinations
    slotValues,              \* piggyback->slotValues
    numberOfTuples,          \* piggyback->numberOfTuples
    tableOids,               \* piggyback->tableOids
    fdsPruned,               \* piggyback->fdsPruned
    initStack,               \* the combining nodes whose ExecInitNode is running
    nodes,                   \* plan nodes initialised
    scans,                   \* scan nodes initialised
    endCalls,                \* ExecEndNode calls made
    heap,                    \* the next address malloc, calloc or palloc returns
    out,                     \* the messages sent to the client
    rows,                    \* history: the rows the root node yielded
    hist,                    \* history: per column, the last shortcut and what followed
    start,                   \* history: the statistics and the heap when the first row came
    last                     \* history: the last operation

engineVars == <<live, pc, schema, columnStatistics, distinctValues, twoColumnsCombinations,
                slotValues, numberOfTuples, tableOids, fdsPruned, initStack, nodes, scans,
                endCalls, heap, out, rows, hist, start, last>>

vars == <<engineVars, setVars, mapVars>>

\* the results the model runs: an integer and a character column of one
\* table, and a decimal column beside a column of a second table whose type
\* the engine does not track.  Attributes 1 and 3 of either table are
\* integers; attribute 3 is in no result.
Schemas ==
    { << [name |-> "id", table |-> 101, attr |-> 1, type |-> "int4"],
         [name |-> "category", table |-> 101, attr |-> 2, type |-> "varchar"] >>,
      << [name |-> "price", table |-> 101, attr |-> 4, type |-> "numeric"],
         [name |-> "flag", table |-> 102, attr |-> 2, type |-> "bool"] >> }

TableOids == {101, 102}

numberOfAttributes == Len(schema)
Cols == 0..(numberOfAttributes - 1)
IntCols == {c \in Cols : schema[c + 1].type = "int4"}

\* a datum of a row: null, or an int, or the text the type's output function gives
Datum(isNull, i, s) == [isNull |-> isNull, int |-> i, str |-> s]
IntVals == {1, 2}
TextVals == {<<120>>, <<121>>}
NumericVals == {<<49, 46, 53>>, <<50>>}
BoolVals == {<<116>>}

ValuesOf(type) ==
    {Datum(TRUE, 0, << >>)} \cup
    CASE type = "int4"    -> {Datum(FALSE, v, << >>) : v \in IntVals}
      [] type = "varchar" -> {Datum(FALSE, 0, s) : s \in TextVals}
      [] type = "numeric" -> {Datum(FALSE, 0, s) : s \in NumericVals}
      [] OTHER            -> {Datum(FALSE, 0, s) : s \in BoolVals}

AllValues == UNION {ValuesOf(t) : t \in {"int4", "varchar", "numeric", "bool"}}

RowsOf(sch) ==
    {r \in [0..(Len(sch) - 1) -> AllValues] :
        \A c \in 0..(Len(sch) - 1) : r[c] \in ValuesOf(sch[c + 1].type)}

\* sprintf(cvalue, "%d", value)
RECURSIVE Digits(_)
Digits(n) == IF n < 10 THEN <<48 + n>> ELSE Digits(n \div 10) \o <<48 + (n % 10)>>
Decimal(value) ==
    IF value = INT_MIN THEN <<45>> \o Digits(INT_MAX \div 10) \o <<48 + (INT_MAX % 10) + 1>>
    ELSE IF value < 0 THEN <<45>> \o Digits(-value)
    ELSE Digits(value)

(***************************************************************************)
(* The state after the instance is set up for a query.  The set-up is not  *)
(* among the sources: every statistic starts unresolved and not final, the *)
(* temporary bounds start at the ends of int, every column has an empty    *)
(* tracker and every ordered pair of columns a map.                        *)
(***************************************************************************)
GarbageName == "?"

InitStatistic(col, c) ==
    [columnDescriptor |-> [rescolumnname |-> col.name, srctableid |-> col.table,
                           srccolumnid |-> col.attr, rescolumnid |-> c],
     isNumeric |-> 0,
     n_distinct |-> 0, n_distinctIsFinal |-> 0,
     minValue |-> NullInt, minValueTemp |-> IntPtr(FirstAddr + (2 * c), INT_MAX),
     minValueIsFinal |-> 0,
     maxValue |-> NullInt, maxValueTemp |-> IntPtr(FirstAddr + (2 * c) + 1, INT_MIN),
     maxValueIsFinal |-> 0,
     mostFrequentValue |-> NullInt, mostFrequentValueIsFinal |-> 0]

\* the index as it would be without the step over the diagonal
PairIndexNoSkip(n, i, j) == (i * (n - 1)) + j

\* index of the ordered pair (i, j) among n columns
PairIndex(n, i, j) == (i * (n - 1)) + (IF j > i THEN j - 1 ELSE j)
PairIndices(n) == 0..((n * (n - 1)) - 1)

\* a scan's qual: no filter, or a first term column <opno> constant
NoQual == [present |-> FALSE, opno |-> 0, varattno |-> 0, constvalue |-> 0]
OpExpr(opno, varattno, constvalue) ==
    [present |-> TRUE, opno |-> opno, varattno |-> varattno, constvalue |-> constvalue]

NoStart == [cs |-> << >>, heap |-> 0, tcc |-> << >>]
NoShortcut == [kind |-> "none", val |-> 0, inval |-> FALSE]
NoOp ==
    [op |-> "none", col |-> 0, cleared |-> {}, sub |-> {}, table |-> 0, qual |-> NoQual,
     oids |-> {}, old |-> {}]

EngineInitWith(sch, isLive, status) ==
    /\ live = isLive
    /\ pc = "init"
    /\ schema = sch
    /\ columnStatistics =
           [c \in 0..(Len(sch) - 1) |->
               [InitStatistic(sch[c + 1], c) EXCEPT
                   !.n_distinct = status[c].n_distinct,
                   !.n_distinctIsFinal = status[c].n_distinctIsFinal]]
    /\ distinctValues = [c \in 0..(Len(sch) - 1) |-> hashset_create]
    /\ twoColumnsCombinations =
           [x \in PairIndices(Len(sch)) |-> hashmapCreate(TABLE_STARTSIZE)]
    /\ slotValues = [c \in 0..(Len(sch) - 1) |-> EmptyLit]
    /\ numberOfTuples = 0
    /\ tableOids = << >>
    /\ fdsPruned = FALSE
    /\ initStack = << >>
    /\ nodes = 0
    /\ scans = 0
    /\ endCalls = 0
    /\ heap = FirstAddr + (2 * Len(sch))
    /\ out = << >>
    /\ rows = << >>
    /\ hist = [c \in 0..(Len(sch) - 1) |-> NoShortcut]
    /\ start = NoStart
    /\ last = NoOp

\* the distinct status of a column nothing is known about
Unresolved == [n_distinct |-> 0, n_distinctIsFinal |-> 0]

EngineInitFor(sch, isLive) ==
    EngineInitWith(sch, isLive, [c \in 0..(Len(sch) - 1) |-> Unresolved])

\* no query is running
EngineIdle == EngineInitFor(<< >>, FALSE)

EngineInit == \E sch \in Schemas : EngineInitFor(sch, TRUE)

(***************************************************************************)
(* Invalidation and the filter shortcuts.                                  *)
(***************************************************************************)
\* the columns a table's invalidation reaches: those whose descriptor names it
ColumnsOfTable(cs, tableOid) ==
    {i \in DOMAIN cs : tableOid = cs[i].columnDescriptor.srctableid}

ClearFlags(stat) ==
    [stat EXCEPT !.n_distinctIsFinal = 0, !.minValueIsFinal = 0,
                 !.maxValueIsFinal = 0, !.mostFrequentValueIsFinal = 0]

\* the slip of clearing the flags of the columns of every other table
InvalidateStatisticsForOtherTables(cs, tableOid) ==
    [i \in DOMAIN cs |->
        IF tableOid # cs[i].columnDescriptor.srctableid THEN ClearFlags(cs[i]) ELSE cs[i]]

InvalidateStatisticsForTable(cs, tableOid) ==
    [i \in DOMAIN cs |->
        IF tableOid = cs[i].columnDescriptor.srctableid THEN ClearFlags(cs[i]) ELSE cs[i]]

\* the table ids of piggyback->tableOids that oldTableOids does not hold
RelevantTableOids(oids, oldTableOids) ==
    SelectSeq(oids, LAMBDA t : \A k \in 1..Len(oldTableOids) : oldTableOids[k] # t)

RECURSIVE InvalidateEach(_, _, _)
InvalidateEach(cs, relevantTableOids, k) ==
    IF k > Len(relevantTableOids) THEN cs
    ELSE InvalidateEach(InvalidateStatisticsForTable(cs, relevantTableOids[k]),
                        relevantTableOids, k + 1)

InvalidateStatisticsForTables(cs, oids, oldTableOids) ==
    InvalidateEach(cs, RelevantTableOids(oids, oldTableOids), 1)

\* the slip of an equality shortcut that leaves the bounds not final
SetStatisticValuesForEqualNotFinal(cs, equationValue, columnStatisticId, columnData) ==
    IF columnStatisticId < Cardinality(DOMAIN cs)
    THEN [cs EXCEPT ![columnStatisticId] =
            [@ EXCEPT !.columnDescriptor = columnData, !.isNumeric = 1,
                      !.maxValue = equationValue, !.minValue = equationValue,
                      !.mostFrequentValue = equationValue, !.n_distinct = 1,
                      !.n_distinctIsFinal = 1]]
    ELSE cs

SetStatisticValuesForEqual(cs, equationValue, columnStatisticId, columnData) ==
    IF columnStatisticId < Cardinality(DOMAIN cs)
    THEN [cs EXCEPT ![columnStatisticId] =
            [@ EXCEPT !.columnDescriptor = columnData, !.isNumeric = 1,
                      !.maxValue = equationValue, !.minValue = equationValue,
                      !.mostFrequentValue = equationValue, !.n_distinct = 1,
                      !.n_distinctIsFinal = 1, !.minValueIsFinal = 1,
                      !.maxValueIsFinal = 1, !.mostFrequentValueIsFinal = 1]]
    ELSE cs

\* *value of SetStatisticValuesForUnequal
UnequalValue(greaterThan, orEquals, v) ==
    IF ~orEquals THEN (IF greaterThan THEN Inc32(v) ELSE Dec32(v)) ELSE v

SetStatisticValuesForUnequal(cs, greaterThan, orEquals, equationValue, columnStatisticId, columnData, valueAddr) ==
    LET value == IntPtr(valueAddr, UnequalValue(greaterThan, orEquals, equationValue.val))
    IN IF columnStatisticId < Cardinality(DOMAIN cs)
       THEN [cs EXCEPT ![columnStatisticId] =
               IF greaterThan
               THEN [@ EXCEPT !.columnDescriptor = columnData, !.minValue = value,
                              !.minValueIsFinal = 1, !.n_distinctIsFinal = 0,
                              !.mostFrequentValueIsFinal = 0]
               ELSE [@ EXCEPT !.columnDescriptor = columnData, !.maxValue = value,
                              !.maxValueIsFinal = 1, !.n_distinctIsFinal = 0,
                              !.mostFrequentValueIsFinal = 0]]
       ELSE cs

\* the operator identifiers LookForFilterWithEquality recognises
EqOps == {94, 96, 410, 416, 1862, 1868, 15, 532, 533}
LtOps == {37, 95, 97, 412, 418, 534, 535, 1864, 1870}
LeOps == {80, 414, 420, 522, 523, 540, 541, 1866, 1872}
GtOps == {76, 413, 419, 520, 521, 536, 1865, 1871}
GeOps == {82, 415, 430, 524, 525, 537, 542, 543, 1867, 1873}

OpKind(opno) ==
    IF opno \in EqOps THEN "eq"
    ELSE IF opno \in LtOps THEN "lt"
    ELSE IF opno \in LeOps THEN "le"
    ELSE IF opno \in GtOps THEN "gt"
    ELSE IF opno \in GeOps THEN "ge"
    ELSE "other"

\* the slip of a search loop that stops one short, at the last column
FindColumnLast(cs, tableOid, columnId) ==
    LET hits == {i \in DOMAIN cs : /\ tableOid = cs[i].columnDescriptor.srctableid
                                   /\ columnId = cs[i].columnDescriptor.srccolumnid}
    IN IF hits = {} THEN Cardinality(DOMAIN cs) - 1
       ELSE CHOOSE i \in hits : \A k \in hits : i <= k

\* the i the search loop of LookForFilterWithEquality stops at
FindColumn(cs, tableOid, columnId) ==
    LET hits == {i \in DOMAIN cs : /\ tableOid = cs[i].columnDescriptor.srctableid
                                   /\ columnId = cs[i].columnDescriptor.srccolumnid}
    IN IF hits = {} THEN Cardinality(DOMAIN cs)
       ELSE CHOOSE i \in hits : \A k \in hits : i <= k

\* columnData is malloc'ed and only srccolumnid is assigned: its other fields
\* hold whatever the allocation held (garbage, the word found there)
ColumnData(columnId, garbage) ==
    [rescolumnname |-> GarbageName, srctableid |-> garbage,
     srccolumnid |-> columnId, rescolumnid |-> garbage]

LookForFilterWithEquality(cs, tableOid, qual, garbage, constAddr, valueAddr) ==
    IF qual.present
    THEN LET columnData == ColumnData(qual.varattno, garbage)
             i == FindColumn(cs, tableOid, qual.varattno)
             inv == InvalidateStatisticsForTable(cs, tableOid)
             const == IntPtr(constAddr, qual.constvalue)
             kind == OpKind(qual.opno)
         IN CASE kind = "eq" -> SetStatisticValuesForEqual(inv, const, i, columnData)
              [] kind = "lt" ->
                   SetStatisticValuesForUnequal(inv, FALSE, FALSE, const, i, columnData, valueAddr)
              [] kind = "le" ->
                   SetStatisticValuesForUnequal(inv, FALSE, TRUE, const, i, columnData, valueAddr)
              [] kind = "gt" ->
                   SetStatisticValuesForUnequal(inv, TRUE, FALSE, const, i, columnData, valueAddr)
              [] kind = "ge" ->
                   SetStatisticValuesForUnequal(inv, TRUE, TRUE, const, i, columnData, valueAddr)
              [] OTHER -> inv
    ELSE cs

(***************************************************************************)
(* Observing a row at the root node.                                       *)
(***************************************************************************)
\* the switch set, as it is where the candidate maps were filled per row
calculateFDsOn == TRUE

calculateFDs == FALSE

\* what hashset_num_items(piggyback->distinctValues) can read: the argument is
\* the array of trackers, not a tracker, so the count is the word that lies
\* where a tracker keeps nitems
GarbageReads == {0, 1, ULONG_MAX}

AllFinal(stat) ==
    /\ stat.minValueIsFinal # 0
    /\ stat.maxValueIsFinal # 0
    /\ stat.n_distinctIsFinal # 0

\* the slip of storing the comparison's result in the flag
ObserveIntResets(S, i, value, read) ==
    LET val_pntr == IntPtr(S.heap, value)
        cvalue == StrPtr(S.heap + 1, Decimal(value))
        st0 == [S.cs[i] EXCEPT !.isNumeric = 1]
        st1 == IF value < st0.minValueTemp.val
               THEN [st0 EXCEPT !.minValueTemp = val_pntr,
                                !.minValueIsFinal =
                                    IF val_pntr.addr = st0.minValue.addr THEN 1 ELSE 0]
               ELSE st0
        st2 == IF value > st1.maxValueTemp.val
               THEN [st1 EXCEPT !.maxValueTemp = val_pntr,
                                !.maxValueIsFinal =
                                    IF val_pntr.addr = st1.maxValue.addr THEN 1 ELSE 0]
               ELSE st1
        track == st2.n_distinctIsFinal = 0
        st3 == IF track /\ read = st2.n_distinct
               THEN [st2 EXCEPT !.n_distinctIsFinal = 1] ELSE st2
    IN [cs |-> [S.cs EXCEPT ![i] = st3],
        dv |-> IF track
               THEN [S.dv EXCEPT ![i] = hashset_add_integer(S.dv[i], value).set]
               ELSE S.dv,
        sv |-> [S.sv EXCEPT ![i] = cvalue],
        heap |-> S.heap + 2]

\* case INT8OID, INT2OID, INT2VECTOROID, INT4OID
ObserveInt(S, i, value, read) ==
    LET val_pntr == IntPtr(S.heap, value)
        cvalue == StrPtr(S.heap + 1, Decimal(value))
        st0 == [S.cs[i] EXCEPT !.isNumeric = 1]
        st1 == IF value < st0.minValueTemp.val
               THEN [st0 EXCEPT !.minValueTemp = val_pntr,
                                !.minValueIsFinal =
                                    IF val_pntr.addr = st0.minValue.addr THEN 1 ELSE @]
               ELSE st0
        st2 == IF value > st1.maxValueTemp.val
               THEN [st1 EXCEPT !.maxValueTemp = val_pntr,
                                !.maxValueIsFinal =
                                    IF val_pntr.addr = st1.maxValue.addr THEN 1 ELSE @]
               ELSE st1
        track == st2.n_distinctIsFinal = 0
        st3 == IF track /\ read = st2.n_distinct
               THEN [st2 EXCEPT !.n_distinctIsFinal = 1] ELSE st2
    IN [cs |-> [S.cs EXCEPT ![i] = st3],
        dv |-> IF track
               THEN [S.dv EXCEPT ![i] = hashset_add_integer(S.dv[i], value).set]
               ELSE S.dv,
        sv |-> [S.sv EXCEPT ![i] = cvalue],
        heap |-> S.heap + 2]

\* case NUMERICOID, and case BPCHAROID, VARCHAROID: the slot value is the text
ObserveText(S, i, str) ==
    LET cvalue == StrPtr(S.heap, str)
        st0 == [S.cs[i] EXCEPT !.isNumeric = 0]
        track == st0.n_distinctIsFinal = 0
        set == IF track THEN hashset_add_string(S.dv[i], cvalue.str).set ELSE S.dv[i]
        st1 == IF track /\ hashset_num_items(set) = st0.n_distinct
               THEN [st0 EXCEPT !.n_distinctIsFinal = 1] ELSE st0
    IN [cs |-> [S.cs EXCEPT ![i] = st1],
        dv |-> [S.dv EXCEPT ![i] = set],
        sv |-> [S.sv EXCEPT ![i] = cvalue],
        heap |-> S.heap + 1]

\* the slip of reading the datum without the test for null
ObserveColumnNoNullTest(S, i, type, datum, read) ==
    IF AllFinal(S.cs[i]) THEN S
    ELSE CASE type = "int4" -> ObserveInt(S, i, datum.int, read)
           [] type \in {"numeric", "varchar"} -> ObserveText(S, i, datum.str)
           [] OTHER -> [S EXCEPT !.sv[i] = EmptyLit]

\* one round of the column loop of ExecProcNode
ObserveColumn(S, i, type, datum, read) ==
    IF AllFinal(S.cs[i]) THEN S
    ELSE IF datum.isNull THEN [S EXCEPT !.sv[i] = EmptyLit]
    ELSE CASE type = "int4" -> ObserveInt(S, i, datum.int, read)
           [] type \in {"numeric", "varchar"} -> ObserveText(S, i, datum.str)
           [] OTHER -> [S EXCEPT !.sv[i] = EmptyLit]

RECURSIVE ObserveColumns(_, _, _, _, _)
ObserveColumns(S, i, sch, row, reads) ==
    IF i >= Len(sch) THEN S
    ELSE ObserveColumns(ObserveColumn(S, i, sch[i + 1].type, row[i],
                                      IF i \in DOMAIN reads THEN reads[i] ELSE 0),
                        i + 1, sch, row, reads)

\* the pairs in the order of the two loops, each with the index the loop
\* body computes for it
PairSeq(n) ==
    [k \in 1..(n * (n - 1)) |->
        LET i == (k - 1) \div (n - 1)
            s == (k - 1) % (n - 1)
            j == IF s >= i THEN s + 1 ELSE s
        IN [i |-> i, j |-> j, index |-> PairIndex(n, i, j)]]

\* the test of prune as it would be if it compared the two counts with <=
PruneTestNotStrict(cs, i, j) ==
    /\ cs[i].n_distinct # 0
    /\ cs[j].n_distinct # 0
    /\ cs[i].n_distinct <= cs[j].n_distinct
    /\ cs[j].n_distinctIsFinal # 0

\* the test of prune: the determinant has fewer distinct values than a
\* dependent whose count is final
PruneTest(cs, i, j) ==
    /\ cs[i].n_distinct # 0
    /\ cs[j].n_distinct # 0
    /\ cs[i].n_distinct < cs[j].n_distinct
    /\ cs[j].n_distinctIsFinal # 0

\* the pair loop of prune from its k-th round on
RECURSIVE PruneFrom(_, _, _, _)
PruneFrom(tcc, cs, pairs, k) ==
    IF k > Len(pairs) THEN tcc
    ELSE LET p == pairs[k]
         IN PruneFrom(IF PruneTest(cs, p.i, p.j) THEN [tcc EXCEPT ![p.index] = NullMap]
                      ELSE tcc,
                      cs, pairs, k + 1)

\* prune(): drops the candidates the test selects
prune(tcc, cs) == PruneFrom(tcc, cs, PairSeq(Cardinality(DOMAIN cs)), 1)

\* one round of the pair loop of fillFDCandidateMaps; the stored dependent
\* value and the current one are compared as pointers
FillPairRecreates(targetMap, lhs, rhsNow) ==
    IF IsNullMap(targetMap)
    THEN hashmapInsert(hashmapCreate(TABLE_STARTSIZE), rhsNow, hash(lhs.str))
    ELSE LET rhs == hashmapGet(targetMap, hash(lhs.str))
         IN IF rhs = NullStr THEN hashmapInsert(targetMap, rhsNow, hash(lhs.str))
            ELSE IF rhs.addr # rhsNow.addr THEN NullMap
            ELSE targetMap

FillPair(targetMap, lhs, rhsNow) ==
    IF IsNullMap(targetMap) THEN targetMap
    ELSE LET rhs == hashmapGet(targetMap, hash(lhs.str))
         IN IF rhs = NullStr THEN hashmapInsert(targetMap, rhsNow, hash(lhs.str))
            ELSE IF rhs.addr # rhsNow.addr THEN NullMap
            ELSE targetMap

\* the pair loop of fillFDCandidateMaps from its k-th round on
RECURSIVE FillFrom(_, _, _, _)
FillFrom(tcc, sv, pairs, k) ==
    IF k > Len(pairs) THEN tcc
    ELSE LET p == pairs[k]
         IN FillFrom([tcc EXCEPT ![p.index] = FillPair(tcc[p.index], sv[p.i], sv[p.j])],
                     sv, pairs, k + 1)

fillFDCandidateMaps(tcc, cs, sv, pruned) ==
    FillFrom(IF ~pruned THEN prune(tcc, cs) ELSE tcc, sv,
             PairSeq(Cardinality(DOMAIN cs)), 1)

\* the piggyback block of ExecProcNode for one row: the column loop, then the
\* candidate maps if fds (the value of calculateFDs); cut is the maps as
\* prune left them, when this row made it run
ObserveRow(S0, sch, row, reads, fds) ==
    LET S == ObserveColumns([cs |-> S0.cs, dv |-> S0.dv, sv |-> S0.sv, heap |-> S0.heap],
                            0, sch, row, reads)
    IN [cs |-> S.cs, dv |-> S.dv, sv |-> S.sv, heap |-> S.heap,
        tcc |-> IF fds THEN fillFDCandidateMaps(S0.tcc, S.cs, S.sv, S0.pruned)
                ELSE S0.tcc,
        cut |-> IF fds /\ ~S0.pruned THEN prune(S0.tcc, S.cs) ELSE S0.tcc,
        pruned |-> IF fds THEN TRUE ELSE S0.pruned]

(***************************************************************************)
(* The Reporter.                                                           *)
(***************************************************************************)
\* the distinct count printSingleColumnStatistics resolves for a column
DistinctValuesCount(stat, set, tuples) ==
    IF stat.n_distinctIsFinal = 0 THEN hashset_num_items(set)
    ELSE IF stat.n_distinct = -1 THEN tuples
    ELSE stat.n_distinct

\* ColumnReport as it would be if it read the permanent bounds (the two
\* lines that are commented out in printSingleColumnStatistics)
ColumnReportPermanent(stat, set, tuples, i) ==
    [name |-> stat.columnDescriptor.rescolumnname, index |-> i,
     distinctCount |-> DistinctValuesCount(stat, set, tuples),
     minValue |-> stat.minValue.val, maxValue |-> stat.maxValue.val,
     isNumeric |-> stat.isNumeric]

ColumnReport(stat, set, tuples, i) ==
    [name |-> stat.columnDescriptor.rescolumnname, index |-> i,
     distinctCount |-> DistinctValuesCount(stat, set, tuples),
     minValue |-> stat.minValueTemp.val, maxValue |-> stat.maxValueTemp.val,
     isNumeric |-> stat.isNumeric]

printSingleColumnStatistics(cs, dv, tuples) ==
    IF tuples <= 0 THEN << >>
    ELSE [k \in 1..Cardinality(DOMAIN cs) |-> ColumnReport(cs[k - 1], dv[k - 1], tuples, k - 1)]

\* n_distinct after the Reporter wrote the resolved counts back
ResolvedStatistics(cs, dv, tuples) ==
    IF tuples <= 0 THEN cs
    ELSE [i \in DOMAIN cs |->
            [cs[i] EXCEPT !.n_distinct = DistinctValuesCount(cs[i], dv[i], tuples)]]

printFunctionalDependencies(cs, tcc, tuples) ==
    IF tuples <= 0 THEN << >>
    ELSE LET live_pairs == SelectSeq(PairSeq(Cardinality(DOMAIN cs)),
                                     LAMBDA p : ~IsNullMap(tcc[p.index]))
         IN [k \in 1..Len(live_pairs) |->
               [determinant |-> cs[live_pairs[k].i].columnDescriptor.rescolumnname,
                dependent |-> cs[live_pairs[k].j].columnDescriptor.rescolumnname]]

\* the fields of the message, as pq_sendint(buf, v, 4) and pq_sendstring
\* append them
Int32Field(v) == [type |-> "int32", int |-> v, str |-> ""]
StringField(str) == [type |-> "string", int |-> 0, str |-> str]

\* the slip of sending the column count before the test for rows
ColumnCountFieldUnguarded(cs, tuples) == Cardinality(DOMAIN cs)

\* the count printSingleColumnStatistics sends ahead of the column records
ColumnCountField(cs, tuples) == IF tuples <= 0 THEN 0 ELSE Cardinality(DOMAIN cs)

\* the six fields of one column record
ColumnFields(col) ==
    <<StringField(col.name), Int32Field(col.index), Int32Field(col.distinctCount),
      Int32Field(col.minValue), Int32Field(col.maxValue), Int32Field(col.isNumeric)>>

\* fdCount: one for every pair whose map is not NULL
FdCount(cs, tcc, tuples) == Len(printFunctionalDependencies(cs, tcc, tuples))

\* the two names of one dependency of the list
FdFields(fd) == <<StringField(fd.determinant), StringField(fd.dependent)>>

\* the sends of the column loop
RECURSIVE SendColumns(_, _)
SendColumns(columns, k) ==
    IF k > Len(columns) THEN << >>
    ELSE ColumnFields(columns[k]) \o SendColumns(columns, k + 1)

\* foreach(cell, functionalDependencies)
RECURSIVE SendDependencies(_, _)
SendDependencies(fds, k) ==
    IF k > Len(fds) THEN << >>
    ELSE FdFields(fds[k]) \o SendDependencies(fds, k + 1)

printMetaData(cs, dv, tcc, tuples) ==
    LET columns == printSingleColumnStatistics(cs, dv, tuples)
        fds == printFunctionalDependencies(ResolvedStatistics(cs, dv, tuples), tcc, tuples)
    IN [tag |-> "X", columnCount |-> ColumnCountField(cs, tuples), columns |-> columns,
        fdCount |-> FdCount(cs, tcc, tuples), fds |-> fds,
        wire |-> <<StringField("X"), Int32Field(ColumnCountField(cs, tuples))>>
                 \o SendColumns(columns, 1)
                 \o <<Int32Field(FdCount(cs, tcc, tuples))>>
                 \o SendDependencies(fds, 1)]

(***************************************************************************)
(* The executor's calls.                                                   *)
(***************************************************************************)
\* operators a scan's filter is tried with: =, <, <=, >, >= and <> on int4
QualOps == {96, 97, 523, 521, 525, 518}
\* the filters of the scans: none, each operator on the first attribute with
\* a small constant, equality on an attribute that is in no result, and the
\* two comparisons whose bound lies past the end of int
Quals ==
    {NoQual} \cup {OpExpr(o, 1, 1) : o \in QualOps}
             \cup {OpExpr(96, 3, 1), OpExpr(521, 1, INT_MAX), OpExpr(97, 1, INT_MIN)}
\* the words a fresh allocation can hold where a table id is read: none of
\* the tables, or one of them
GarbageOids == {0, 101}

\* lappend(list, datum) on the list of table ids
lappend(list, datum) == Append(list, datum)

Frame(saved) == [saved |-> saved, cols |-> {}, tabs |-> {}]

\* ExecInitNode of a combining node, up to the initialisation of its subtree:
\* oids = piggyback->tableOids
EnterCombining ==
    /\ live
    /\ pc = "init"
    /\ (nodes - scans) + Len(initStack) < MaxCombining
    /\ initStack' = Append(initStack, Frame(Len(tableOids)))
    /\ last' = [NoOp EXCEPT !.op = "enter"]
    /\ UNCHANGED <<live, pc, schema, columnStatistics, distinctValues,
                   twoColumnsCombinations, slotValues, numberOfTuples, tableOids,
                   fdsPruned, nodes, scans, endCalls, heap, out, rows, hist, start>>

\* what oids points to when the subtree is initialised: NIL if the list was
\* NIL; otherwise the list itself when lappend extends it in place, or the
\* cells it had when lappend builds a new list
OldTableOids(frame, inPlace) ==
    IF frame.saved = 0 THEN << >>
    ELSE IF inPlace THEN tableOids
    ELSE SubSeq(tableOids, 1, frame.saved)

\* ExecInitNode of a combining node, after its subtree:
\* InvalidateStatisticsForTables(oids)
ExitCombining(inPlace) ==
    /\ live
    /\ pc = "init"
    /\ initStack # << >>
    /\ LET frame == initStack[Len(initStack)]
           old == OldTableOids(frame, inPlace)
           relevant == RelevantTableOids(tableOids, old)
           cleared == UNION {ColumnsOfTable(columnStatistics, relevant[k]) :
                                k \in 1..Len(relevant)}
       IN /\ columnStatistics' = InvalidateStatisticsForTables(columnStatistics, tableOids, old)
          /\ hist' = [c \in Cols |->
                        IF c \in cleared /\ hist[c].kind # "none"
                        THEN [hist[c] EXCEPT !.inval = TRUE] ELSE hist[c]]
          /\ last' = [NoOp EXCEPT !.op = "exit", !.cleared = cleared, !.sub = frame.cols,
                                   !.oids = {relevant[k] : k \in 1..Len(relevant)},
                                   !.old = {tableOids[k] : k \in 1..frame.saved}]
          /\ initStack' =
                [k \in 1..(Len(initStack) - 1) |->
                    [initStack[k] EXCEPT !.cols = @ \cup frame.cols,
                                         !.tabs = @ \cup frame.tabs]]
    /\ nodes' = nodes + 1
    /\ UNCHANGED <<live, pc, schema, distinctValues, twoColumnsCombinations, slotValues,
                   numberOfTuples, tableOids, fdsPruned, scans, endCalls, heap, out, rows,
                   start>>

\* ExecInitNode of a sequential scan of tableOid with filter qual
InitScan(tableOid, qual, garbage) ==
    /\ live
    /\ pc = "init"
    /\ scans < MaxScans
    /\ LET i == FindColumn(columnStatistics, tableOid, qual.varattno)
           kind == IF qual.present THEN OpKind(qual.opno) ELSE "none"
           hit == qual.present /\ i < numberOfAttributes /\ kind # "other"
           cleared == IF qual.present THEN ColumnsOfTable(columnStatistics, tableOid) ELSE {}
       IN /\ columnStatistics' =
                LookForFilterWithEquality(columnStatistics, tableOid, qual, garbage,
                                          heap, heap + 1)
          /\ hist' = [c \in Cols |->
                        IF hit /\ c = i
                        THEN [kind |-> kind, val |-> qual.constvalue, inval |-> FALSE]
                        ELSE IF c \in cleared /\ hist[c].kind # "none"
                        THEN [hist[c] EXCEPT !.inval = TRUE]
                        ELSE hist[c]]
          /\ last' = [op |-> "scan", col |-> IF hit THEN i ELSE numberOfAttributes,
                      cleared |-> cleared, sub |-> {}, table |-> tableOid, qual |-> qual,
                      oids |-> {}, old |-> {}]
          /\ initStack' =
                [k \in 1..Len(initStack) |->
                    [initStack[k] EXCEPT !.cols = IF hit THEN @ \cup {i} ELSE @,
                                         !.tabs = @ \cup {tableOid}]]
    /\ tableOids' = lappend(tableOids, tableOid)
    /\ heap' = heap + 2
    /\ nodes' = nodes + 1
    /\ scans' = scans + 1
    /\ UNCHANGED <<live, pc, schema, distinctValues, twoColumnsCombinations, slotValues,
                   numberOfTuples, fdsPruned, endCalls, out, rows, start>>

\* the plan is initialised: every ExecInitNode has returned
Initialised ==
    \/ pc = "init" /\ initStack = << >> /\ nodes > 0
    \/ pc = "run"

\* column <kind> constant, as the scan evaluates its filter on a row
Passes(kind, datum, v) ==
    /\ ~datum.isNull
    /\ CASE kind = "eq" -> datum.int = v
         [] kind = "lt" -> datum.int < v
         [] kind = "le" -> datum.int <= v
         [] kind = "gt" -> datum.int > v
         [] kind = "ge" -> datum.int >= v
         [] OTHER -> TRUE

\* the rows the root node can yield: when the plan is one scan, the rows
\* that pass its filter; under a combining node (an append, a join, an
\* aggregate) a result column takes values from elsewhere too
RowsOfPlan ==
    {row \in RowsOf(schema) :
        nodes = 1 => \A c \in Cols : hist[c].kind # "none" =>
                                        Passes(hist[c].kind, row[c], hist[c].val)}

\* the engine counts the rows the root node yields
CountTuple(tuples) == tuples + 1

\* ExecProcNode of the root node yielding a non-empty row, with fds for the
\* value of calculateFDs
ExecProcNodeWith(row, reads, fds) ==
    /\ live
    /\ Initialised
    /\ LET S0 == [cs |-> columnStatistics, dv |-> distinctValues, sv |-> slotValues,
                  heap |-> heap, tcc |-> twoColumnsCombinations, pruned |-> fdsPruned]
           S == ObserveRow(S0, schema, row, reads, fds)
       IN /\ columnStatistics' = S.cs
          /\ distinctValues' = S.dv
          /\ slotValues' = S.sv
          /\ heap' = S.heap
          /\ twoColumnsCombinations' = S.tcc
          /\ fdsPruned' = S.pruned
          /\ start' = IF numberOfTuples = 0
                       THEN [cs |-> columnStatistics, heap |-> heap, tcc |-> S.cut]
                       ELSE start
    /\ numberOfTuples' = CountTuple(numberOfTuples)
    /\ pc' = "run"
    /\ rows' = Append(rows, row)
    /\ last' = [NoOp EXCEPT !.op = "row"]
    /\ UNCHANGED <<live, schema, tableOids, initStack, nodes, scans, endCalls, out, hist>>

ExecProcNode(row, reads) == ExecProcNodeWith(row, reads, calculateFDs)

\* the slip of leaving the instance in place after the report
ExecEndNodeKeepsInstance ==
    /\ \/ Initialised
       \/ pc = "end"
    /\ endCalls < nodes
    /\ IF live
       THEN /\ out' = Append(out, printMetaData(columnStatistics, distinctValues,
                                                twoColumnsCombinations, numberOfTuples))
            /\ columnStatistics' =
                   ResolvedStatistics(columnStatistics, distinctValues, numberOfTuples)
            /\ live' = live
       ELSE UNCHANGED <<out, columnStatistics, live>>
    /\ pc' = "end"
    /\ endCalls' = endCalls + 1
    /\ last' = [NoOp EXCEPT !.op = "end"]
    /\ UNCHANGED <<schema, distinctValues, twoColumnsCombinations, slotValues,
                   numberOfTuples, tableOids, fdsPruned, initStack, nodes, scans, heap,
                   rows, hist, start>>

\* ExecEndNode of one plan node: the first call reports and drops the instance
ExecEndNode ==
    /\ \/ Initialised
       \/ pc = "end"
    /\ endCalls < nodes
    /\ IF live
       THEN /\ out' = Append(out, printMetaData(columnStatistics, distinctValues,
                                                twoColumnsCombinations, numberOfTuples))
            /\ columnStatistics' =
                   ResolvedStatistics(columnStatistics, distinctValues, numberOfTuples)
            /\ live' = FALSE
       ELSE UNCHANGED <<out, columnStatistics, live>>
    /\ pc' = "end"
    /\ endCalls' = endCalls + 1
    /\ last' = [NoOp EXCEPT !.op = "end"]
    /\ UNCHANGED <<schema, distinctValues, twoColumnsCombinations, slotValues,
                   numberOfTuples, tableOids, fdsPruned, initStack, nodes, scans, heap,
                   rows, hist, start>>

\* elog(ERROR, ...): the executor leaves the query before its teardown; no
\* hook runs for this query afterwards
Abort ==
    /\ live
    /\ pc \in {"init", "run"}
    /\ pc' = "aborted"
    /\ last' = [NoOp EXCEPT !.op = "abort"]
    /\ UNCHANGED <<live, schema, columnStatistics, distinctValues, twoColumnsCombinations,
                   slotValues, numberOfTuples, tableOids, fdsPruned, initStack, nodes,
                   scans, endCalls, heap, out, rows, hist, start>>

(***************************************************************************)
(* The hooks while piggyback is NULL.                                      *)
(***************************************************************************)
\* the plan nodes ExecInitNode is called for
NodeTags ==
    {"T_Result", "T_Append", "T_SeqScan", "T_IndexScan", "T_IndexOnlyScan", "T_NestLoop",
     "T_HashJoin", "T_Sort", "T_Group", "T_Agg", "T_Limit"}

\* the cases of ExecInitNode that read piggyback->tableOids or pass the
\* node's filter to LookForFilterWithEquality without a test of piggyback
ReadsInstance(tag) ==
    tag \in {"T_Append", "T_IndexScan", "T_IndexOnlyScan", "T_NestLoop", "T_HashJoin",
             "T_Group", "T_Agg", "T_Limit"}

\* what the read of a field of the NULL instance can do: end the backend
\* with a fault, or yield some word
NullReads == {"fault", "word"}

\* ExecInitNode while piggyback is NULL
ExecInitNodeAbsent(tag, outcome) ==
    /\ ~live
    /\ pc = "init"
    /\ nodes < MaxScans + MaxCombining
    /\ pc' = IF ReadsInstance(tag) /\ outcome = "fault" THEN "fault" ELSE pc
    /\ nodes' = nodes + 1
    /\ last' = [NoOp EXCEPT !.op = tag]
    /\ UNCHANGED <<live, schema, columnStatistics, distinctValues, twoColumnsCombinations,
                   slotValues, numberOfTuples, tableOids, fdsPruned, initStack, scans,
                   endCalls, heap, out, rows, hist, start>>

\* ExecProcNode while piggyback is NULL: if (piggyback != NULL) is false
ExecProcNodeAbsent(row) ==
    /\ ~live
    /\ Initialised
    /\ pc' = "run"
    /\ rows' = Append(rows, row)
    /\ last' = [NoOp EXCEPT !.op = "row"]
    /\ UNCHANGED <<live, schema, columnStatistics, distinctValues, twoColumnsCombinations,
                   slotValues, numberOfTuples, tableOids, fdsPruned, initStack, nodes,
                   scans, endCalls, heap, out, hist, start>>

Init == EngineInit /\ SetInit /\ MapInit

Next ==
    \/ EnterCombining /\ UNCHANGED <<setVars, mapVars>>
    \/ \E inPlace \in BOOLEAN : ExitCombining(inPlace) /\ UNCHANGED <<setVars, mapVars>>
    \/ \E t \in TableOids, q \in Quals, g \in GarbageOids :
          InitScan(t, q, g) /\ UNCHANGED <<setVars, mapVars>>
    \/ \E row \in RowsOfPlan, reads \in [IntCols -> GarbageReads] :
          /\ numberOfTuples < MaxRows
          /\ scans <= MaxScansWithRows
          /\ ExecProcNode(row, reads)
          /\ UNCHANGED <<setVars, mapVars>>
    \/ ExecEndNode /\ UNCHANGED <<setVars, mapVars>>
    \/ Abort /\ UNCHANGED <<setVars, mapVars>>

Spec == Init /\ [][Next]_vars

\* one query: the scan of table 101 (id int4, category varchar) with the
\* filter id > 10, which yields rows of the table that pass the filter
E2ESchema ==
    << [name |-> "id", table |-> 101, attr |-> 1, type |-> "int4"],
       [name |-> "category", table |-> 101, attr |-> 2, type |-> "varchar"] >>
E2EQual == OpExpr(521, 1, 10)
E2ERow(id, category) == (0 :> Datum(FALSE, id, << >>)) @@ (1 :> Datum(FALSE, 0, category))
E2ERows == <<E2ERow(11, <<97>>), E2ERow(12, <<97>>), E2ERow(13, <<98>>)>>

InitE2E == EngineInitFor(E2ESchema, TRUE) /\ SetInit /\ MapInit

NextE2E ==
    \/ \E g \in GarbageOids :
          nodes = 0 /\ InitScan(101, E2EQual, g) /\ UNCHANGED <<setVars, mapVars>>
    \/ \E k \in 1..Len(E2ERows), reads \in [IntCols -> GarbageReads] :
          /\ numberOfTuples < MaxRowsE2E
          /\ ExecProcNode(E2ERows[k], reads)
          /\ UNCHANGED <<setVars, mapVars>>
    \/ ExecEndNode /\ UNCHANGED <<setVars, mapVars>>

SpecE2E == InitE2E /\ [][NextE2E]_vars

\* the set is driven while no query runs; an insert is offered any word, a
\* remove is of a key
InitSet == SetInit /\ EngineIdle /\ MapInit

NextSet ==
    \/ \E k \in SetKeys : SetAdd(k) /\ UNCHANGED <<engineVars, mapVars>>
    \/ \E k \in SetKeys \ {nil, rem} :
          hsRemoves < MaxRemoves /\ SetRemove(k) /\ UNCHANGED <<engineVars, mapVars>>

SpecSet == InitSet /\ [][NextSet]_vars

\* the set driven with keys that start in seven of the eight slots of the
\* fresh set, two of them (0 and 8) in the same one, and with removes enough
\* to leave a tombstone in every slot the live keys leave
FillKeys == (0..6) \cup {8}

InitFill == SetInit /\ EngineIdle /\ MapInit

NextFill ==
    \/ \E k \in FillKeys : SetAdd(k) /\ UNCHANGED <<engineVars, mapVars>>
    \/ \E k \in FillKeys :
          hsRemoves < MaxRemovesFill /\ SetRemove(k) /\ UNCHANGED <<engineVars, mapVars>>

SpecFill == InitFill /\ [][NextFill]_vars

\* the candidate maps on their own: fillFDCandidateMaps (and prune within
\* it) applied to every row of a plain scan, for columns that carry any of
\* the distinct statuses the Reporter decodes
FDStatuses ==
    {Unresolved,
     [n_distinct |-> -1, n_distinctIsFinal |-> 1],
     [n_distinct |-> 1, n_distinctIsFinal |-> 1],
     [n_distinct |-> 2, n_distinctIsFinal |-> 1],
     [n_distinct |-> 2, n_distinctIsFinal |-> 0]}

\* the schemas of the dependency runs: the two of the other runs and one
\* of three columns, which has six ordered pairs
FDSchemas ==
    Schemas \cup
    { << [name |-> "category", table |-> 101, attr |-> 2, type |-> "varchar"],
         [name |-> "price", table |-> 101, attr |-> 4, type |-> "numeric"],
         [name |-> "flag", table |-> 101, attr |-> 5, type |-> "bool"] >> }

\* the statuses a column of a schema of n columns starts a dependency run
\* with; three columns start with a count that is unresolved or exact and
\* final
FDStatusesOf(n) ==
    IF n > 2
    THEN {stat \in FDStatuses :
             stat.n_distinct = 0 \/ (stat.n_distinctIsFinal = 1 /\ stat.n_distinct > 0)}
    ELSE FDStatuses

InitFD ==
    /\ \E sch \in FDSchemas :
          \E status \in [0..(Len(sch) - 1) -> FDStatusesOf(Len(sch))] :
              EngineInitWith(sch, TRUE, status)
    /\ SetInit
    /\ MapInit

NextFD ==
    \/ \E t \in TableOids, g \in GarbageOids :
          nodes = 0 /\ InitScan(t, NoQual, g) /\ UNCHANGED <<setVars, mapVars>>
    \/ \E row \in RowsOfPlan, reads \in [IntCols -> GarbageReads] :
          /\ numberOfTuples < MaxRows
          /\ ExecProcNodeWith(row, reads, TRUE)
          /\ UNCHANGED <<setVars, mapVars>>
    \/ ExecEndNode /\ UNCHANGED <<setVars, mapVars>>

SpecFD == InitFD /\ [][NextFD]_vars

\* a query for which no instance was set up
InitAbsent ==
    /\ \E sch \in Schemas : EngineInitFor(sch, FALSE)
    /\ SetInit
    /\ MapInit

NextAbsent ==
    \/ \E tag \in NodeTags, outcome \in NullReads :
          ExecInitNodeAbsent(tag, outcome) /\ UNCHANGED <<setVars, mapVars>>
    \/ \E row \in RowsOf(schema) :
          Len(rows) < MaxRows /\ ExecProcNodeAbsent(row) /\ UNCHANGED <<setVars, mapVars>>
    \/ ExecEndNode /\ UNCHANGED <<setVars, mapVars>>

SpecAbsent == InitAbsent /\ [][NextAbsent]_vars

InitMap == MapInit /\ SetInit /\ EngineIdle

NextMap ==
    \E key \in MapKeys, data \in MapData :
        MapInsert(key, data) /\ UNCHANGED <<engineVars, setVars>>

SpecMap == InitMap /\ [][NextMap]_vars

(***************************************************************************)
(* Properties.                                                             *)
(***************************************************************************)
\* keys asked for: those the harness adds and some it never adds
ProbeKeys == SetKeys \cup {3, 17, 24}

\* C2: after distinct non-sentinel keys were inserted into a fresh set and
\* nothing was removed, membership is true for exactly the inserted keys and
\* the count is their number, in every state, grown or not.
C2_RoundTrip ==
    hsRemoves = 0 =>
        /\ \A k \in ProbeKeys :
              hashset_is_member(hs, k) =
                  [rv |-> IF k \in hsAdded THEN 1 ELSE 0, hang |-> FALSE]
        /\ hashset_num_items(hs) = Cardinality(hsAdded)

\* C2 happens: six keys are in, the set has grown, an inserted key is found
\* and a key never inserted is not
C2_Witness ==
    /\ hsRemoves = 0
    /\ hs.capacity > hashset_create.capacity
    /\ Cardinality(hsAdded) = 6
    /\ hashset_is_member(hs, 16).rv = 1
    /\ hashset_is_member(hs, 3).rv = 0

\* what the properties speak of
Reported == out # << >>
Report == out[1]
Flags(stat) == <<stat.n_distinctIsFinal, stat.minValueIsFinal, stat.maxValueIsFinal>>
Supported(c) == schema[c + 1].type \in {"int4", "numeric", "varchar"}
RowIndices == 1..Len(rows)
\* the non-null values column c took in the observed rows
ValuesSeen(c) == {rows[k][c] : k \in {x \in RowIndices : ~rows[x][c].isNull}}
\* the dependency i -> j is among the dependencies of the report
FdReported(i, j) ==
    \E k \in 1..Len(Report.fds) :
        Report.fds[k] = [determinant |-> schema[i + 1].name, dependent |-> schema[j + 1].name]
\* column c holds a shortcut of this kind that no invalidation has reached since
Holds(c, kind) == hist[c].kind = kind /\ ~hist[c].inval

\* C1: for every column of a supported type that received no filter shortcut,
\* the distinct count the Reporter writes equals the number of distinct
\* non-null values the column took in the observed rows.
C1_DistinctCountExact ==
    (Reported /\ Report.columnCount > 0) =>
        \A c \in Cols :
            (Supported(c) /\ hist[c].kind = "none") =>
                Report.columns[c + 1].distinctCount = Cardinality(ValuesSeen(c))

\* C3: if two observed rows carry the same non-null value in column i and
\* different values in column j, the dependency i -> j is not in the report.
C3_FalsifiedNotReported ==
    Reported =>
        \A i, j \in Cols :
            (/\ i # j
             /\ \E a, b \in RowIndices :
                   /\ ~rows[a][i].isNull
                   /\ rows[a][i] = rows[b][i]
                   /\ rows[a][j] # rows[b][j])
            => ~FdReported(i, j)

\* C4: if every two observed rows that agree on column i agree on column j,
\* and a determinant value repeats, the dependency i -> j is in the report.
C4_HoldingReported ==
    Reported =>
        \A i, j \in Cols :
            (/\ i # j
             /\ \A a \in RowIndices : ~rows[a][i].isNull /\ ~rows[a][j].isNull
             /\ \A a, b \in RowIndices : rows[a][i] = rows[b][i] => rows[a][j] = rows[b][j]
             /\ \E a, b \in RowIndices : a < b /\ rows[a][i] = rows[b][i])
            => FdReported(i, j)

\* C5: a column with an equality shortcut on v that no invalidation reached
\* has distinct status Exact(1), minimum and maximum v and its three flags
\* true, in every state after the shortcut, whatever rows were observed since.
C5_EqualityShortcutStands ==
    \A c \in Cols :
        Holds(c, "eq") =>
            /\ columnStatistics[c].n_distinct = 1
            /\ columnStatistics[c].minValue.val = hist[c].val
            /\ columnStatistics[c].maxValue.val = hist[c].val
            /\ Flags(columnStatistics[c]) = <<1, 1, 1>>

\* C5 happens: a row with a value in the column was observed after the
\* shortcut, and the column's tracker is as empty as before
C5_Witness ==
    \E c \in Cols :
        /\ Holds(c, "eq")
        /\ last.op = "row"
        /\ ValuesSeen(c) # {}
        /\ hashset_num_items(distinctValues[c]) = 0
        /\ columnStatistics[c].minValue.val = hist[c].val

\* C6: for a column with an equality shortcut on v that was not invalidated,
\* the report carries distinct count 1, minimum v and maximum v (here for the
\* executions in which rows were observed).
C6_EqualityReported ==
    (Reported /\ rows # << >>) =>
        \A c \in Cols :
            Holds(c, "eq") =>
                /\ Report.columnCount = numberOfAttributes
                /\ Report.columns[c + 1].distinctCount = 1
                /\ Report.columns[c + 1].minValue = hist[c].val
                /\ Report.columns[c + 1].maxValue = hist[c].val

\* C7: right after a range shortcut on a column, less-than(v) has set the
\* maximum to v-1 and less-or-equal(v) to v, greater-than(v) the minimum to
\* v+1 and greater-or-equal(v) to v, the flag of that bound is true and the
\* distinct flag and the flag of the opposite bound are false.  (No int is
\* INT_MAX + 1 or INT_MIN - 1: at those constants no bound can be v+1 or v-1.)
C7_RangeShortcut ==
    \A c \in Cols :
        (last.op = "scan" /\ last.col = c) =>
            LET st == columnStatistics[c]
                v == hist[c].val
            IN /\ hist[c].kind = "lt" =>
                    v # INT_MIN /\ st.maxValue.val = v - 1 /\ Flags(st) = <<0, 0, 1>>
               /\ hist[c].kind = "le" =>
                    st.maxValue.val = v /\ Flags(st) = <<0, 0, 1>>
               /\ hist[c].kind = "gt" =>
                    v # INT_MAX /\ st.minValue.val = v + 1 /\ Flags(st) = <<0, 1, 0>>
               /\ hist[c].kind = "ge" =>
                    st.minValue.val = v /\ Flags(st) = <<0, 1, 0>>

\* C8: when the initialisation of a combining node ends, every column that
\* a scan under that node made final by a shortcut has its three flags false.
C8_CombiningInvalidates ==
    last.op = "exit" =>
        \A c \in last.sub : Flags(columnStatistics[c]) = <<0, 0, 0>>

\* C8 would have to clear: a column made final by an equality shortcut under
\* the combining node keeps its flags after the node's initialisation
C8_Kept ==
    /\ last.op = "exit"
    /\ \E c \in last.sub : Holds(c, "eq") /\ Flags(columnStatistics[c]) = <<1, 1, 1>>

\* the table ids invalidation is asked for: the tables, and the word 0 a
\* descriptor can hold
InvalidatedOids == TableOids \cup GarbageOids

\* the fields of a statistic that are not finality flags
Values(stat) ==
    [d |-> stat.columnDescriptor, numeric |-> stat.isNumeric, distinct |-> stat.n_distinct,
     min |-> stat.minValue, minTemp |-> stat.minValueTemp,
     max |-> stat.maxValue, maxTemp |-> stat.maxValueTemp]

\* C9: in every reachable state and for every table id, invalidating the
\* table sets the three flags false for exactly the columns whose descriptor
\* names the table, leaves the flags of every other column as they are, and
\* leaves the distinct status, minimum and maximum of all columns unchanged.
C9_InvalidateFrame ==
    \A t \in InvalidatedOids :
        LET after == InvalidateStatisticsForTable(columnStatistics, t)
        IN \A c \in Cols :
              /\ Values(after[c]) = Values(columnStatistics[c])
              /\ IF columnStatistics[c].columnDescriptor.srctableid = t
                 THEN Flags(after[c]) = <<0, 0, 0>>
                 ELSE Flags(after[c]) = Flags(columnStatistics[c])

\* C9 happens: the initialisation of a combining node has just invalidated a
\* table; the column of that table that held an equality shortcut has lost
\* its three flags and kept its values
C9_Witness ==
    /\ last.op = "exit"
    /\ \E c \in last.cleared :
          /\ hist[c].kind = "eq" /\ hist[c].inval
          /\ Flags(columnStatistics[c]) = <<0, 0, 0>>
          /\ columnStatistics[c].minValue.val = hist[c].val
          /\ columnStatistics[c].n_distinct = 1

\* C10 as stated: no step that observes a row or initialises a scan (and
\* applies its shortcut) changes a true finality flag to false.
C10_NeverCleared ==
    [][last'.op \in {"row", "scan"} =>
          \A c \in Cols : \A f \in 1..3 :
              Flags(columnStatistics[c])[f] = 1 => Flags(columnStatistics'[c])[f] = 1]_vars

\* C10 amended: a true finality flag becomes false only in a step that
\* invalidates the column's table, which is the initialisation of a combining
\* node or the analysis of a scan's filter (it invalidates the scanned table
\* before it applies the shortcut); observing a row, ending a node and the
\* shortcut itself never clear a flag of a column the step did not invalidate.
C10_ClearedOnlyByInvalidation ==
    [][\A c \in Cols : \A f \in 1..3 :
          (Flags(columnStatistics[c])[f] = 1 /\ Flags(columnStatistics'[c])[f] = 0) =>
              /\ last'.op \in {"scan", "exit"}
              /\ c \in last'.cleared]_vars

\* C10 happens: the second scan's analysis has just invalidated a column
\* that held the first scan's shortcut
C10_Witness ==
    /\ last.op = "scan"
    /\ scans = 2
    /\ nodes = 2
    /\ initStack = << >>
    /\ \E c \in last.cleared :
          /\ hist[c].kind # "none"
          /\ hist[c].inval
          /\ columnStatistics[c].n_distinctIsFinal = 0

\* C13: an insert of either reserved word returns -1 and leaves the set (its
\* slots, its capacity and its count) as it was, and the call returns.
C13_SentinelInsertFails ==
    [][(hsLast'.op = "add" /\ hsLast'.key \in {nil, rem}) =>
          /\ hsLast'.rv = -1
          /\ ~hsLast'.hang
          /\ hs' = hs]_vars

\* C13 happens: a set that holds keys and has grown was offered a reserved word
C13_Witness ==
    /\ hsLast.op = "add"
    /\ hsLast.key \in {nil, rem}
    /\ hsLast.rv = -1
    /\ hashset_num_items(hs) > 0
    /\ hs.capacity > hashset_create.capacity

\* C20: an insert of a key that is no reserved word returns zero if and only
\* if the key is in the set when it is called (it was inserted and not
\* removed since), and non-zero otherwise.
C20_InsertTellsPresence ==
    [][(hsLast'.op = "add" /\ hsLast'.key \notin {nil, rem}) =>
          ((hsLast'.rv = 0) <=> (hsLast'.key \in hsAdded))]_vars

\* the step observes a row
RowStep == last'.op = "row" /\ Len(rows') = Len(rows) + 1
\* the row the last step observed
LastRow == rows[Len(rows)]

\* C11: observing a row whose value in column c is null leaves the column's
\* tracker (its slots and its count), its temporary and permanent bounds,
\* its distinct count and its finality flags as they were.
C11_NullLeavesColumn ==
    [][RowStep =>
          \A c \in Cols :
              rows'[Len(rows')][c].isNull =>
                  /\ distinctValues'[c] = distinctValues[c]
                  /\ Values(columnStatistics'[c]) = Values(columnStatistics[c])
                  /\ Flags(columnStatistics'[c]) = Flags(columnStatistics[c])]_vars

\* C11 happens: a column that is tracked and holds a value of an earlier row
\* met a null in the last row
C11_Witness ==
    /\ last.op = "row"
    /\ Len(rows) = 2
    /\ \E c \in Cols :
          /\ Supported(c)
          /\ LastRow[c].isNull
          /\ ~rows[1][c].isNull
          /\ ~AllFinal(columnStatistics[c])
          /\ hashset_num_items(distinctValues[c]) = 1

\* the engine as the first row found it
AtStart ==
    [cs |-> start.cs, dv |-> [c \in Cols |-> hashset_create],
     sv |-> [c \in Cols |-> EmptyLit], heap |-> start.heap,
     tcc |-> [x \in PairIndices(numberOfAttributes) |-> hashmapCreate(TABLE_STARTSIZE)],
     pruned |-> FALSE]

\* the engine after it observed the rows of rowSeq, one after the other
RECURSIVE Replay(_, _, _, _)
Replay(S, rowSeq, readSeq, k) ==
    IF k > Len(rowSeq) THEN S
    ELSE Replay(ObserveRow(S, schema, rowSeq[k], readSeq[k], calculateFDs), rowSeq, readSeq, k + 1)

\* the observed rows without those that have a null in column i or column j
WithoutNulls(i, j) == SelectSeq(rows, LAMBDA r : ~r[i].isNull /\ ~r[j].isNull)

FilterStep == last'.op = "scan" /\ nodes' = nodes + 1 /\ last'.qual.present
\* no descriptor names the filter's table and column when the step begins
FilterUnmapped ==
    ~\E i \in Cols :
        /\ columnStatistics[i].columnDescriptor.srctableid = last'.table
        /\ columnStatistics[i].columnDescriptor.srccolumnid = last'.qual.varattno

\* C14 as the specification states it: when the filter's column maps to no
\* result column, the analyzer call leaves the values and the finality flags
\* of every column as they were.
C14_NoEffect ==
    [][(FilterStep /\ FilterUnmapped) =>
          \A c \in Cols :
              /\ Values(columnStatistics'[c]) = Values(columnStatistics[c])
              /\ Flags(columnStatistics'[c]) = Flags(columnStatistics[c])]_vars

\* C14, amended: when the filter's column maps to no result column, the
\* analyzer call changes no column's descriptor, distinct status or bounds
\* and sets no flag; it clears the flags of the columns whose descriptor
\* names the scanned table and leaves the flags of every other column.
C14_OnlyInvalidates ==
    [][(FilterStep /\ FilterUnmapped) =>
          \A c \in Cols :
              /\ Values(columnStatistics'[c]) = Values(columnStatistics[c])
              /\ Flags(columnStatistics'[c]) =
                     IF columnStatistics[c].columnDescriptor.srctableid = last'.table
                     THEN <<0, 0, 0>>
                     ELSE Flags(columnStatistics[c])]_vars

\* C14 happens: a filter on a column that is in no result was analysed, and
\* a column that held an equality shortcut lost its flags to it
C14_Witness ==
    /\ last.op = "scan"
    /\ last.qual.present
    /\ last.col = numberOfAttributes
    /\ \E c \in last.cleared :
          /\ hist[c].kind = "eq"
          /\ hist[c].inval
          /\ Flags(columnStatistics[c]) = <<0, 0, 0>>

\* C15: when the operator of the filter's first term is in none of the five
\* classes, the analyzer call sets no column's distinct status or bounds, and
\* afterwards the three flags of every column of the scanned table are false.
C15_UnrecognizedInvalidates ==
    [][(FilterStep /\ OpKind(last'.qual.opno) = "other") =>
          \A c \in Cols :
              /\ Values(columnStatistics'[c]) = Values(columnStatistics[c])
              /\ schema[c + 1].table = last'.table =>
                     Flags(columnStatistics'[c]) = <<0, 0, 0>>]_vars

\* C16: at most one message is ever sent; once ExecEndNode has run for every
\* node of the plan exactly one was sent, however many nodes the plan has;
\* an execution that was aborted before its teardown has sent none.
C16_ReportedOnce ==
    /\ Len(out) <= 1
    /\ pc = "end" => Len(out) = 1
    /\ pc = "aborted" => out = << >>

\* C16 happens: the teardown of a plan of several nodes is complete
C16_Witness ==
    /\ pc = "end"
    /\ nodes >= 2
    /\ endCalls = nodes
    /\ numberOfTuples > 0
    /\ Len(out) = 1

\* the step sends the report
ReportStep == Len(out') = Len(out) + 1

\* the distinct count the column's status stands for: the tracker's
\* cardinality for unresolved (0), the number of rows for all-distinct (-1),
\* the count itself for an exact count (a selectivity is a fraction, which
\* no reachable statistic holds)
ByStatus(stat, set, tuples) ==
    CASE stat.n_distinct = 0  -> hashset_num_items(set)
      [] stat.n_distinct = -1 -> tuples
      [] OTHER                -> stat.n_distinct

\* C18: the distinct count of every column record of the report is the one
\* the column's status and the number of rows give.
C18_ResolvedByStatus ==
    [][(ReportStep /\ numberOfTuples > 0) =>
          \A c \in Cols :
              out'[1].columns[c + 1].distinctCount =
                  ByStatus(columnStatistics[c], distinctValues[c], numberOfTuples)]_vars

\* the fields of the message from position p on are count records of the
\* given field types and nothing else
IsRecords(wire, p, count, types) ==
    /\ count >= 0
    /\ Len(wire) = (p - 1) + (count * Len(types))
    /\ \A r \in 0..(count - 1), f \in 1..Len(types) :
           wire[p + (r * Len(types)) + (f - 1)].type = types[f]

\* the message is the tag, a count, that many column records, a second
\* count and that many pairs of names
WellFormed(wire) ==
    /\ Len(wire) >= 3
    /\ wire[1] = StringField("X")
    /\ wire[2].type = "int32"
    /\ LET n == wire[2].int
           q == 3 + (6 * n)
       IN /\ n >= 0
          /\ Len(wire) >= q
          /\ IsRecords(SubSeq(wire, 1, q - 1), 3, n,
                       <<"string", "int32", "int32", "int32", "int32", "int32">>)
          /\ wire[q].type = "int32"
          /\ IsRecords(wire, q + 1, wire[q].int, <<"string", "string">>)

\* C19: every message sent is well formed, and both counts are 0 when no row
\* was observed.
C19_WellFormedMessage ==
    \A k \in 1..Len(out) :
        /\ WellFormed(out[k].wire)
        /\ numberOfTuples = 0 => out[k].wire = <<StringField("X"), Int32Field(0), Int32Field(0)>>

\* C19 happens: a report of two column records and two dependencies was sent
C19_Witness ==
    /\ Reported
    /\ numberOfTuples > 0
    /\ Report.wire[2] = Int32Field(2)
    /\ Report.wire[15] = Int32Field(2)
    /\ Len(Report.wire) = 19

\* the report holds a record of this name that satisfies P
HasColumn(name, P(_)) ==
    \E k \in 1..Len(Report.columns) : Report.columns[k].name = name /\ P(Report.columns[k])

\* C17: for the result (id, category) of the scan with filter id > 10 and
\* the rows (11,'a'), (12,'a'), (13,'b'), the report holds id with minimum 11
\* and maximum 13, category with distinct count 2, the dependency
\* id -> category, and not the dependency category -> id.
C17_EndToEnd ==
    (Reported /\ schema = E2ESchema /\ rows = E2ERows /\ hist[0].kind = "gt") =>
        /\ HasColumn("id", LAMBDA col : col.minValue = 11 /\ col.maxValue = 13)
        /\ HasColumn("category", LAMBDA col : col.distinctCount = 2)
        /\ FdReported(0, 1)
        /\ ~FdReported(1, 0)

(***************************************************************************)
(* The set under inserts and removes.                                      *)
(***************************************************************************)
\* a step of the harness that removed a key
RemoveStep == hsRemoves' = hsRemoves + 1

\* a step of the harness that inserted a key
AddStep == hsRemoves' = hsRemoves /\ hsLast'.op = "add"

\* C21: under any inserts and removes of non-sentinel keys, remove(x)
\* returns non-zero exactly when x was a member, and a removed key is not
\* a member again until it is inserted again.
C21_RemoveTellsMembership ==
    /\ [][RemoveStep =>
             ((hsLast'.rv # 0) <=> (hsLast'.key \in hsAdded))]_vars
    /\ [](\A k \in FillKeys :
             k \notin hsAdded => hashset_is_member(hs, k).rv = 0)

\* the live keys divided by the capacity are at least 0.85
LoadReached(keys, capacity) == Cardinality(keys) * 100 >= 85 * capacity

\* C22: the capacity is 8 on creation and changes only by doubling; an
\* insert doubles it exactly when the live keys after the insert are at
\* least 0.85 of the capacity, and never at a lower load.
C22_GrowsAtLoad ==
    /\ hs.capacity = 8
    /\ [][(hs'.capacity # hs.capacity) =>
              (AddStep /\ hs'.capacity = 2 * hs.capacity)]_vars
    /\ [][AddStep =>
              ((hs'.capacity # hs.capacity)
                  <=> LoadReached(hsAdded', hs.capacity))]_vars

\* C23: after any inserts and removes of non-sentinel keys every operation
\* ends: the one just made has ended, and a membership test, a remove or an
\* insert of any key would end.
C23_Terminates ==
    /\ ~hsLast.hang
    /\ \A k \in FillKeys \cup {7} :
          /\ ~hashset_is_member(hs, k).hang
          /\ ~hashset_remove(hs, k).hang
          /\ ~hashset_add_integer(hs, k).hang

\* C24: a remove leaves every other live key findable.
C24_RemoveKeepsOthers ==
    [][RemoveStep =>
          \A b \in hsAdded \ {hsLast'.key} :
              (hashset_is_member(hs, b).rv = 1) =>
                  (hashset_is_member(hs', b) = [rv |-> 1, hang |-> FALSE])]_vars

\* C24 happens: a member was removed, and another live key is found past
\* the tombstone that stands in the slot its probe starts at
C24_Witness ==
    /\ hsLast.op = "remove" /\ hsLast.rv = 1
    /\ \E b \in hsAdded :
          /\ hs.items[FirstSlot(hs, b)] = rem
          /\ hashset_is_member(hs, b).rv = 1

(***************************************************************************)
(* The hashmap under inserts.                                              *)
(***************************************************************************)
MapProbeKeys == MapKeys \cup {7, 9, 36}

\* C25: after any inserts of non-null data into a map created with a size
\* of at least 3, a lookup returns the data last inserted for the key and 0
\* for a key never inserted, and the count is the number of distinct keys
\* (so an overwrite leaves it alone), doubled and rehashed or not.
C25_MapRoundTrip ==
    /\ \A k \in MapProbeKeys :
          hashmapGet(hmap, k) = IF k \in MapKeys THEN hmData[k] ELSE NullStr
    /\ hashmapCount(hmap) = Cardinality({k \in MapKeys : hmData[k] # NullStr})

\* C25 happens: the map has doubled twice, a key's data was replaced, a key
\* sits away from the slot its probe starts at, and a key was never inserted
C25_Witness ==
    /\ hmap.size >= 4 * MapStartSize
    /\ hmOver
    /\ \E k \in MapKeys :
          /\ hmData[k] # NullStr
          /\ EntryAt(hmap, MapIndex(hmap, k)).key # k
    /\ \E k \in MapKeys : hmData[k] = NullStr

(***************************************************************************)
(* The candidate maps: reporting and pruning.                              *)
(***************************************************************************)
Pair(i, j) == PairIndex(numberOfAttributes, i, j)

\* C26: at emission the pair (i, j) is reported exactly when its map still
\* exists and holds as many distinct keys as column i's resolved distinct
\* count; a pair whose map holds fewer keys is not reported (stated for
\* columns that keep their names, those no filter shortcut was written to).
C26_ReportedByKeyCount ==
    (Reported /\ numberOfTuples > 0) =>
        \A i, j \in Cols :
            (i # j /\ hist[i].kind = "none" /\ hist[j].kind = "none") =>
                (FdReported(i, j) <=>
                    /\ ~IsNullMap(twoColumnsCombinations[Pair(i, j)])
                    /\ hashmapCount(twoColumnsCombinations[Pair(i, j)])
                           = Report.columns[i + 1].distinctCount)

\* C27: in one execution the pruning pass runs exactly once, before the
\* first evaluation of the candidates: once a row has been observed the
\* pass has run, and its one-shot flag, once set, stays set.
C27_PrunedOnce ==
    /\ [](numberOfTuples > 0 => fdsPruned)
    /\ [][fdsPruned => fdsPruned']_vars

\* the step in which the pruning pass runs
PruneStep == ~fdsPruned /\ fdsPruned'

\* column i's distinct count is strictly below column j's, both are
\* non-zero and column j's is final
Infeasible(cs, i, j) ==
    /\ cs[i].n_distinct # 0
    /\ cs[j].n_distinct # 0
    /\ cs[i].n_distinct < cs[j].n_distinct
    /\ cs[j].n_distinctIsFinal # 0

\* C28: the pruning pass discards the map of a pair (i, j) exactly when
\* both distinct counts are non-zero, i's is strictly below j's and j's is
\* final; it leaves every other map as it was.
C28_PruneExact ==
    [][PruneStep =>
          \A i, j \in Cols :
              (i # j) =>
                  (start'.tcc[Pair(i, j)] =
                      IF Infeasible(columnStatistics', i, j) THEN NullMap
                      ELSE twoColumnsCombinations[Pair(i, j)])]_vars

\* C28 happens: the pass has run, it discarded a pair and it kept another
C28_Witness ==
    /\ fdsPruned
    /\ \E x \in DOMAIN start.tcc : IsNullMap(start.tcc[x])
    /\ \E x \in DOMAIN start.tcc : ~IsNullMap(start.tcc[x])

\* the status column c carried when the pruning pass ran says of the
\* observed rows what it stands for: nothing (0), that no value repeats and
\* none is null (-1), or the number of distinct values
Truthful(c) ==
    CASE start.cs[c].n_distinct = 0 -> TRUE
      [] start.cs[c].n_distinct = -1 ->
            /\ \A a \in RowIndices : ~rows[a][c].isNull
            /\ Cardinality(ValuesSeen(c)) = Len(rows)
      [] OTHER -> Cardinality(ValuesSeen(c)) = start.cs[c].n_distinct

\* the dependency i -> j holds on the observed rows
DependencyHolds(i, j) ==
    \A a, b \in RowIndices : (rows[a][i] = rows[b][i]) => (rows[a][j] = rows[b][j])

\* C29: the pruning pass is sound: a pair it discarded is not a dependency
\* that holds on the rows of the stream, whatever statuses the columns
\* carried when it ran (statuses that are true of the stream).
C29_PruneSound ==
    fdsPruned =>
        \A i, j \in Cols :
            (/\ i # j
             /\ IsNullMap(start.tcc[Pair(i, j)])
             /\ Truthful(i)
             /\ Truthful(j))
            => ~DependencyHolds(i, j)

\* C30: a map that was discarded, by the pruning pass or by a falsifying
\* row, stays absent in every later step, and its pair is not in the report.
C30_DiscardedStaysAbsent ==
    [][\A i, j \in Cols :
          (i # j) =>
              /\ IsNullMap(twoColumnsCombinations[Pair(i, j)]) =>
                     IsNullMap(twoColumnsCombinations'[Pair(i, j)])
              /\ (fdsPruned' /\ IsNullMap(start'.tcc[Pair(i, j)])) =>
                     IsNullMap(twoColumnsCombinations'[Pair(i, j)])
              /\ (ReportStep /\ IsNullMap(twoColumnsCombinations[Pair(i, j)])) =>
                     ~(FdReported(i, j)')]_vars

\* C30 happens: the pruning pass discarded a map with the first row, a
\* second row was observed, and the report was made
C30_Witness ==
    /\ Reported
    /\ Len(rows) = 2
    /\ \E x \in DOMAIN start.tcc :
          IsNullMap(start.tcc[x]) /\ IsNullMap(twoColumnsCombinations[x])

(***************************************************************************)
(* Combining nodes, shortcuts and the descriptor.                          *)
(***************************************************************************)
\* the table ids the plan has touched
Touched == {tableOids[k] : k \in 1..Len(tableOids)}

\* C31: when the initialisation of a combining node ends, the tables
\* invalidated are exactly those touched by then that had not been touched
\* before the node's subtree was initialised.
C31_InvalidatesDifference ==
    last.op = "exit" => last.oids = Touched \ last.old

\* C32: a column an equality or range shortcut was written to keeps the
\* name, the source table and the result column index of its descriptor (so
\* invalidating its table still reaches it and the report still names it).
C32_DescriptorKept ==
    (last.op = "scan" /\ last.col < numberOfAttributes) =>
        LET d == columnStatistics[last.col].columnDescriptor
        IN  /\ d.rescolumnname = schema[last.col + 1].name
            /\ d.srctableid = schema[last.col + 1].table
            /\ d.rescolumnid = last.col

\* C33: while no instance is live every hook is a no-op: initialising a
\* node, yielding a row or ending a node never ends the query with a fault
\* and changes nothing of the engine.
C33_AbsentNoOp ==
    ~live =>
        /\ pc # "fault"
        /\ out = << >>
        /\ numberOfTuples = 0
        /\ tableOids = << >>

(***************************************************************************)
(* The row observer: the snapshot, the counts and the bounds.              *)
(***************************************************************************)
\* the text of a datum of a column of the type: the decimal digits of an
\* int, the output text of a numeric or a character value, and the empty
\* text for a null and for a type that is not tracked
TextOf(type, datum) ==
    IF datum.isNull THEN << >>
    ELSE CASE type = "int4" -> Decimal(datum.int)
           [] type \in {"numeric", "varchar"} -> datum.str
           [] OTHER -> << >>

\* C34: after each observed row the snapshot holds, for every result
\* column, the text of the value the row has in that column; no entry is
\* left from an earlier row, also for a column whose three flags are true.
C34_SnapshotCurrent ==
    (last.op = "row" /\ rows # << >>) =>
        \A c \in Cols :
            slotValues[c].str = TextOf(schema[c + 1].type, rows[Len(rows)][c])

\* C35: a column that an equality shortcut set to Exact(1) and an
\* invalidation then cleared is counted by the tracker again: the distinct
\* count reported for it is the number of distinct values it took.
C35_InvalidatedCountsAgain ==
    (Reported /\ numberOfTuples > 0) =>
        \A c \in Cols :
            (/\ hist[c].kind = "eq"
             /\ hist[c].inval
             /\ Flags(start.cs[c]) = <<0, 0, 0>>)
            => Report.columns[c + 1].distinctCount = Cardinality(ValuesSeen(c))

\* C36: for an int column with a pre-set minimum (maximum) whose flag is
\* false, a row sets the flag exactly when after it the temporary minimum
\* (maximum) equals the pre-set one in value.
C36_PromotesOnMatch ==
    [][RowStep =>
          \A c \in IntCols :
              LET before == columnStatistics[c]
                  after == columnStatistics'[c]
                  value == rows'[Len(rows')][c]
              IN  /\ (/\ ~value.isNull
                      /\ before.minValue # NullInt
                      /\ before.minValueIsFinal = 0)
                     => ((after.minValueIsFinal = 1)
                            <=> (after.minValueTemp.val = before.minValue.val))
                  /\ (/\ ~value.isNull
                      /\ before.maxValue # NullInt
                      /\ before.maxValueIsFinal = 0)
                     => ((after.maxValueIsFinal = 1)
                            <=> (after.maxValueTemp.val = before.maxValue.val))]_vars

\* the ints column c took in the observed rows
IntsSeen(c) == {d.int : d \in ValuesSeen(c)}

\* C37: for an int column without an equality shortcut that took a non-null
\* value, the minimum and the maximum of the report are the smallest and
\* the largest non-null value it took in the observed rows.
C37_BoundsAreExtremes ==
    Reported =>
        \A c \in IntCols :
            (hist[c].kind # "eq" /\ IntsSeen(c) # {}) =>
                /\ Report.columns[c + 1].minValue \in IntsSeen(c)
                /\ Report.columns[c + 1].maxValue \in IntsSeen(c)
                /\ \A v \in IntsSeen(c) :
                      /\ Report.columns[c + 1].minValue <= v
                      /\ v <= Report.columns[c + 1].maxValue

\* C37 happens: an int column without an equality shortcut took two
\* different values, and the report was made
C37_Witness ==
    /\ Reported
    /\ \E c \in IntCols :
          /\ hist[c].kind # "eq"
          /\ Cardinality(IntsSeen(c)) = 2
          /\ Report.columns[c + 1].minValue < Report.columns[c + 1].maxValue

\* C38: the minimum a greater-than(v) shortcut sets is above v and the
\* maximum a less-than(v) shortcut sets is below v, for every int v, the
\* ends of int included.
C38_StrictBound ==
    (last.op = "scan" /\ last.col < numberOfAttributes) =>
        LET v == last.qual.constvalue
            kind == OpKind(last.qual.opno)
        IN  /\ (kind = "gt") => (columnStatistics[last.col].minValue.val > v)
            /\ (kind = "lt") => (columnStatistics[last.col].maxValue.val < v)

(***************************************************************************)
(* The index of a pair.                                                    *)
(***************************************************************************)
\* the map of pair (i, j) after the pruning pass, if this step ran it
AfterPrune(i, j) ==
    IF PruneStep /\ Infeasible(columnStatistics', i, j) THEN NullMap
    ELSE twoColumnsCombinations[Pair(i, j)]

\* C39: the index i*(n-1) + (j>i ? j-1 : j) maps the ordered pairs of
\* distinct columns one-to-one onto the slots of the candidate maps; a row
\* updates or discards the map of a pair from that pair's own map and the
\* two columns' values alone, and the report names exactly the pairs whose
\* map is left, so no pair's update or discard reaches another pair.
C39_PairIndexOneToOne ==
    /\ [](\A i, j \in Cols :
             (i # j) =>
                 /\ Pair(i, j) \in DOMAIN twoColumnsCombinations
                 /\ \A k, l \in Cols :
                       (k # l /\ Pair(k, l) = Pair(i, j)) => (k = i /\ l = j))
    /\ [](\A x \in DOMAIN twoColumnsCombinations :
             \E i, j \in Cols : i # j /\ Pair(i, j) = x)
    /\ [][RowStep =>
             \A i, j \in Cols :
                 (i # j) =>
                     twoColumnsCombinations'[Pair(i, j)] =
                         FillPair(AfterPrune(i, j), slotValues'[i], slotValues'[j])]_vars
    /\ [][ReportStep =>
             \A i, j \in Cols :
                 (i # j) =>
                     (FdReported(i, j)' <=>
                         (numberOfTuples > 0
                          /\ ~IsNullMap(twoColumnsCombinations[Pair(i, j)])))]_vars

\* C39 happens: among three columns a pair was discarded after the pruning
\* pass had kept it, the reverse pair is in the report and the discarded one
\* is not
C39_Witness ==
    /\ numberOfAttributes = 3
    /\ Reported
    /\ fdsPruned
    /\ \E i, j \in Cols :
          /\ i # j
          /\ ~IsNullMap(start.tcc[Pair(i, j)])
          /\ IsNullMap(twoColumnsCombinations[Pair(i, j)])
          /\ FdReported(j, i)
          /\ ~FdReported(i, j)

====
